---- MODULE Spec2Model ----
(***************************************************************************)
(* Consent Manager of td-js-sdk (lib/plugins/consent-manager.js).          *)
(*                                                                         *)
(* The store this.consentManager.preferences is an insertion-ordered map   *)
(* contextId -> context; it is modelled as a record [order, ctx]: `order`  *)
(* is the sequence of own keys in insertion order (what for..in visits),   *)
(* `ctx` the map itself.  The keys of one context's `consents` map are     *)
(* visited in the fixed order PurposeOrder: the order of the keys inside   *)
(* one context decides nothing the model observes (the dispatches of one   *)
(* round are compared as bags).                                            *)
(*                                                                         *)
(* A consent is the record [status, expiry_date, context_id, description,  *)
(* _updated].  `datatype` is handled by every line of the source exactly   *)
(* as `description` is, and `issuer`, `identifier`, `key` are written but  *)
(* never read by the plugin, so they are left out.  A property that is     *)
(* absent from a JavaScript object is the value Undefined.  `_updated` is  *)
(* only ever read for its truthiness (lines 130, 241, 329): FALSE stands   *)
(* for both `false` and an absent flag.  expiry_date is a number of        *)
(* abstract time units; NoDate stands for the empty string ''.             *)
(***************************************************************************)
EXTENDS Naturals, Sequences, FiniteSets, TLC

VARIABLES
    configured,        \* configure() has run
    preferences,       \* this.consentManager.preferences
    storage,           \* localStorage[storageKey], parsed; NoBlob when the key is not set
    storageAvailable,  \* isLocalStorageAccessible()
    rounds,            \* one entry per Promise.all(...) built by saveConsents / saveContexts
    uuids,             \* how many identifiers generateUUID() has handed out
    calls,             \* how many calls the host page has made since configure
    threw,             \* whether the last public call ended by raising a TypeError
    lastStep,          \* the step taken last: the operation and its arguments
    expiredConsentsCallback  \* the arguments expiredConsentsCallback was invoked with

vars == <<configured, preferences, storage, storageAvailable, rounds, uuids, calls, threw,
          lastStep, expiredConsentsCallback>>

-----------------------------------------------------------------------------
(* Bounds of the exploration *)

\* Calls the host page makes after configure, of any public operation.
MaxCalls == 3
\* saveConsents / saveContexts calls among them.
MaxSaves == 2

-----------------------------------------------------------------------------
(* Values *)

Undefined == "undefined"

GIVEN == "given"
REFUSED == "refused"
NOTGIVEN == "notgiven"
EXPIRED == "expired"
CONSENT_STATES == {GIVEN, REFUSED, NOTGIVEN, EXPIRED}

\* '' as an expiry date (also what `expiry_date || null` normalises away)
NoDate == 0
\* Instants are counted in abstract units, DayLen of them to one day: the
\* precision of the date format 'YYYY-MM-DD'.
DayLen == 4
\* new Date() of this page load (inside day 2)
Today == 9
\* the instants of the date strings "2000-01-01" and "2099-01-01" (days 1 and 3)
PastTs == 4
FutureTs == 12

\* generateUUID(): the n-th identifier handed out
UUIDS == <<"uuid0", "uuid1", "uuid2", "uuid3", "uuid4", "uuid5">>

\* for..in order of the keys of one consents map
PurposeOrder == <<"a", "A", "b">>

EmptyMap == <<>>
NoBlob == [order |-> <<>>, ctx |-> EmptyMap]

\* camelCase() of utils/misc on the purpose keys the model uses
camelCase(s) == IF s = "A" THEN "a" ELSE s

toLowerCase(s) ==
    CASE s = "GIVEN" -> "given"
      [] s = "REFUSED" -> "refused"
      [] OTHER -> s

_isValidStatus(status) ==
    IF status = Undefined
    THEN FALSE
    ELSE toLowerCase(status) \in CONSENT_STATES

\* dayjs(str, dateFormat): the instant, or Invalid
Invalid == 99
dayjsParse(s) ==
    CASE s = "2099-01-01" -> FutureTs
      [] s = "2000-01-01" -> PastTs
      [] OTHER -> Invalid

\* the expiry-date normalisation shared by addConsents and updateConsent:
\* a non-empty string that parses gives its instant, anything else `fallback`
parseExpiry(expiryDate, fallback) ==
    IF expiryDate # Undefined /\ dayjsParse(expiryDate) # Invalid
    THEN dayjsParse(expiryDate)
    ELSE fallback

-----------------------------------------------------------------------------
(* Helpers over the ordered maps *)

Range(s) == {s[i] : i \in 1..Len(s)}

KeysOf(consents) == SelectSeq(PurposeOrder, LAMBDA k : k \in DOMAIN consents)

\* m[k] = v, appending k to the key order when it is new
Put(p, k, v) ==
    [order |-> IF k \in DOMAIN p.ctx THEN p.order ELSE Append(p.order, k),
     ctx |-> [c \in DOMAIN p.ctx \cup {k} |-> IF c = k THEN v ELSE p.ctx[c]]]

PutConsent(consents, k, v) ==
    [q \in DOMAIN consents \cup {k} |-> IF q = k THEN v ELSE consents[q]]

\* the (contextId, consentKey) pairs in the order the nested for..in loops visit them
RECURSIVE Visit(_, _)
Visit(p, ord) ==
    IF ord = <<>>
    THEN <<>>
    ELSE LET c == Head(ord)
             ks == KeysOf(p.ctx[c].consents)
         IN  [i \in 1..Len(ks) |-> <<c, ks[i]>>] \o Visit(p, Tail(ord))

ConsentAt(p, pair) == p.ctx[pair[1]].consents[pair[2]]

-----------------------------------------------------------------------------
(* Storage adapter *)

\* _.isEmpty(expiryDate) of lines 151 and 209 (utils/lodash): of the values an
\* expiry_date takes, only '' is empty
isEmptyDate(d) == d = NoDate

\* dayjs(expiryDate).format(dateFormat): the date string, written as the number
\* of its day
dayjsFormat(d) == d \div DayLen

\* a reload that takes the persisted date string for the instant itself
dayjsValueOfRaw(day) == day

\* dayjs(str, dateFormat).valueOf() of a persisted date string: the first
\* instant of its day
dayjsValueOf(day) == day * DayLen

\* _stringifyPreferences with the _.omit of line 150 lost
keepUpdated(consent) == consent

\* what _.omit(consent, ['_updated']) leaves of a consent
omitUpdated(consent) ==
    [status |-> consent.status,
     expiry_date |-> consent.expiry_date,
     context_id |-> consent.context_id,
     description |-> consent.description]

stringifyConsent(consent) ==
    omitUpdated([consent EXCEPT !.expiry_date =
                    IF ~isEmptyDate(@) THEN dayjsFormat(@) ELSE @])

_stringifyPreferences(p) ==
    [order |-> p.order,
     ctx |-> [c \in DOMAIN p.ctx |->
                [p.ctx[c] EXCEPT !.consents =
                    [k \in DOMAIN @ |-> stringifyConsent(@[k])]]]]

\* one consent as JSON.parse gives it back, with its expiry date re-read
parseConsent(stored) ==
    [status |-> stored.status,
     expiry_date |-> IF ~isEmptyDate(stored.expiry_date)
                     THEN dayjsValueOf(stored.expiry_date)
                     ELSE stored.expiry_date,
     context_id |-> stored.context_id,
     description |-> stored.description,
     _updated |-> IF "_updated" \in DOMAIN stored THEN stored._updated ELSE FALSE]

\* getPreferences() || {}
getPreferences(available, blob) ==
    IF ~available
    THEN NoBlob
    ELSE [order |-> blob.order,
          ctx |-> [c \in DOMAIN blob.ctx |->
                     [blob.ctx[c] EXCEPT !.consents =
                         [k \in DOMAIN @ |-> parseConsent(@[k])]]]]

\* a _savePreferences that does not ask whether the storage is accessible
_savePreferencesAlways(available, p, blob) ==
    IF p.order = <<>> THEN blob ELSE _stringifyPreferences(p)

\* the content of the storage key after _savePreferences()
_savePreferences(available, p, blob) ==
    IF ~available \/ p.order = <<>>
    THEN blob
    ELSE _stringifyPreferences(p)

-----------------------------------------------------------------------------
(* Sync engine *)

\* the rejection reasons the transport may give
Reasons == {"Timeout", "Denied"}

_getNormalizedConsent(consentKey, consent) ==
    [description |-> consent.description,
     status |-> consent.status,
     expriry_date |-> consent.expiry_date,
     purpose |-> consentKey,
     context_id |-> consent.context_id]

Flagged(p, pair) == ConsentAt(p, pair)._updated

\* an object filled by obj[consentKey] = ... over the pairs of `seq`, in order:
\* a later pair with the same consentKey overwrites an earlier one
KeyedByPurpose(p, seq) ==
    [k \in {seq[i][2] : i \in 1..Len(seq)} |->
        LET last == CHOOSE i \in 1..Len(seq) :
                        /\ seq[i][2] = k
                        /\ \A j \in (i+1)..Len(seq) : seq[j][2] # k
        IN  _getNormalizedConsent(k, ConsentAt(p, seq[last]))]

_normalizeConsents(p) ==
    LET pairs == Visit(p, p.order)
        updatedConsents == SelectSeq(pairs, LAMBDA q : Flagged(p, q))
        notUdpatedConsents == SelectSeq(pairs, LAMBDA q : ~Flagged(p, q))
    IN  IF updatedConsents = <<>>
        THEN KeyedByPurpose(p, notUdpatedConsents)
        ELSE KeyedByPurpose(p, updatedConsents)

_resetUpdatedStatus(p) ==
    [p EXCEPT !.ctx =
        [c \in DOMAIN @ |->
            [@[c] EXCEPT !.consents =
                [k \in DOMAIN @ |-> [@[k] EXCEPT !._updated = FALSE]]]]]

\* saveConsents with the else branch of line 340 lost: both partitions are sent
ConsentPromisesBoth(p) ==
    LET pairs == Visit(p, p.order)
    IN  [i \in 1..Len(pairs) |->
            _getNormalizedConsent(pairs[i][2], ConsentAt(p, pairs[i]))]

\* saveConsents sending the changed partition whether or not it is empty
ConsentPromisesChangedOnly(p) ==
    LET pairs == Visit(p, p.order)
        updatedConsents == SelectSeq(pairs, LAMBDA q : Flagged(p, q))
    IN  [i \in 1..Len(updatedConsents) |->
            _getNormalizedConsent(updatedConsents[i][2], ConsentAt(p, updatedConsents[i]))]

\* the records saveConsents hands to _getPromise, in order
ConsentPromises(p) ==
    LET pairs == Visit(p, p.order)
        updatedConsents == SelectSeq(pairs, LAMBDA q : Flagged(p, q))
        notUpdatedConsents == SelectSeq(pairs, LAMBDA q : ~Flagged(p, q))
        chosen == IF updatedConsents # <<>> THEN updatedConsents ELSE notUpdatedConsents
    IN  [i \in 1..Len(chosen) |->
            _getNormalizedConsent(chosen[i][2], ConsentAt(p, chosen[i]))]

\* !_.isEmpty(updatedConsents), the value the finally-closure keeps
HasUpdated(p) == \E c \in DOMAIN p.ctx : \E k \in DOMAIN p.ctx[c].consents :
                    p.ctx[c].consents[k]._updated

\* a saveConsents that always takes the configured callbacks
CallbacksConfigured(given) == "host"

\* the callbacks a saveConsents(success, error) call ends up with:
\* success || this.consentManager.successConsentCallback, and the same for
\* error.  "host" stands for the pair configured by the page, "noop" for the
\* pair (_.noop, _.noop).
Callbacks(given) == IF given # Undefined THEN given ELSE "host"

\* The round a saveConsents(given, given) call starts.  `cb` tells which
\* callbacks it ends up with.
\* `store` keeps the store as the call saw it.  pend[i] is "pending",
\* "resolved", or the reason dispatch i was rejected with.  `reported` is the
\* argument onSuccess got, `message` the message of the payload onError got.
ConsentRound(p, cb) ==
    [table |-> "consent",
     cb |-> Callbacks(cb),
     store |-> p,
     dispatched |-> ConsentPromises(p),
     changed |-> HasUpdated(p),
     pend |-> [i \in 1..Len(ConsentPromises(p)) |-> "pending"],
     outcome |-> "pending",
     reported |-> EmptyMap,
     message |-> ""]

\* a saveContexts that sends the contexts whole, without the _.omit of line 274
ContextRoundWhole(p) ==
    [table |-> "context",
     cb |-> "host",
     store |-> p,
     dispatched |-> [i \in 1..Len(p.order) |-> p.ctx[p.order[i]]],
     changed |-> FALSE,
     pend |-> [i \in 1..Len(p.order) |-> "pending"],
     outcome |-> "pending",
     reported |-> EmptyMap,
     message |-> ""]

\* the records saveContexts dispatches: _.omit(context, ['consents'])
ContextRound(p) ==
    [table |-> "context",
     cb |-> "host",
     store |-> p,
     dispatched |-> [i \in 1..Len(p.order) |->
                        [context_id |-> p.ctx[p.order[i]].context_id,
                         brand |-> p.ctx[p.order[i]].brand]],
     changed |-> FALSE,
     pend |-> [i \in 1..Len(p.order) |-> "pending"],
     outcome |-> "pending",
     reported |-> EmptyMap,
     message |-> ""]

\* Promise.all(promises).then(onFulfilled, onRejected).finally(...) of one round,
\* run once the aggregate is decided: the round as the handlers leave it
Handled(r, p, outcome, reason) ==
    [r EXCEPT !.outcome = outcome,
              !.reported = IF outcome = "success" /\ r.table = "consent"
                           THEN _normalizeConsents(p)
                           ELSE EmptyMap,
              !.message = IF outcome = "error" THEN reason ELSE ""]

\* the reset chained with then instead of finally: no reset after a rejection
AfterThen(r, p) ==
    IF r.changed /\ (\A i \in 1..Len(r.pend) : r.pend[i] = "resolved")
    THEN _resetUpdatedStatus(p)
    ELSE p

\* ... and the store as they leave it
AfterFinally(r, p) == IF r.changed THEN _resetUpdatedStatus(p) ELSE p


-----------------------------------------------------------------------------
(* What the page load finds in storage: blobs an earlier session wrote *)

Stored(status, day, contextId, description) ==
    [status |-> status, expiry_date |-> day, context_id |-> contextId,
     description |-> description]

\* one context, one of its two consents past its expiry date
BlobOneContext ==
    [order |-> <<"c1">>,
     ctx |-> [c \in {"c1"} |->
                [context_id |-> "c1", brand |-> "shop",
                 consents |-> [k \in {"a", "b"} |->
                    IF k = "a" THEN Stored(GIVEN, dayjsFormat(PastTs), "c1", "d1")
                               ELSE Stored(REFUSED, NoDate, "c1", Undefined)]]]]

\* the same purpose in two contexts: one not yet due, one that an earlier page
\* load has found expired
BlobTwoContexts ==
    [order |-> <<"c1", "c2">>,
     ctx |-> [c \in {"c1", "c2"} |->
                [context_id |-> c, brand |-> "shop",
                 consents |-> [k \in {"a"} |->
                    IF c = "c1" THEN Stored(GIVEN, dayjsFormat(FutureTs), "c1", "d1")
                                ELSE Stored(EXPIRED, dayjsFormat(PastTs), "c2", Undefined)]]]]

InitialBlobs == {NoBlob, BlobOneContext, BlobTwoContexts}

\* a value of lastStep
Step(op, args) == [op |-> op, args |-> args]

Init ==
    /\ configured = FALSE
    /\ preferences = NoBlob
    /\ storage \in InitialBlobs
    /\ storageAvailable \in BOOLEAN
    \* an inaccessible storage is never read: one blob stands for all of them
    /\ ~storageAvailable => storage = BlobOneContext
    /\ rounds = <<>>
    /\ uuids = 0
    /\ calls = 0
    /\ threw = FALSE
    /\ lastStep = Step("load", <<>>)
    /\ expiredConsentsCallback = <<>>

-----------------------------------------------------------------------------
(* configure and the expiry reconciler *)

\* an _isExpired that does not compare the date with today
_isExpiredGiven(consent) ==
    /\ consent.status = GIVEN
    /\ consent.expiry_date # NoDate

_isExpired(consent) ==
    /\ consent.status = GIVEN
    /\ consent.expiry_date # NoDate
    /\ consent.expiry_date < Today

\* the store after the loops of _updateExpiredConsents
ExpiredMarked(p) ==
    [p EXCEPT !.ctx =
        [c \in DOMAIN @ |->
            [@[c] EXCEPT !.consents =
                [k \in DOMAIN @ |->
                    IF _isExpired(@[k])
                    THEN [@[k] EXCEPT !.status = EXPIRED, !._updated = TRUE]
                    ELSE @[k]]]]]

shouldSaveConsents(p) ==
    \E c \in DOMAIN p.ctx : \E k \in DOMAIN p.ctx[c].consents :
        _isExpired(p.ctx[c].consents[k])

\* this.defaultContext.context_id: the first identifier configure generates
DefaultContextId == UUIDS[1]

\* getConsents(): one record per consent, the context's fields merged with
\* the consent's
getConsents(p, available, blob) ==
    LET source == IF p.order # <<>> THEN p ELSE getPreferences(available, blob)
        pairs == Visit(source, source.order)
    IN  [i \in 1..Len(pairs) |->
            LET context == source.ctx[pairs[i][1]]
                consent == ConsentAt(source, pairs[i])
            IN  [context_id |-> context.context_id,
                 brand |-> context.brand,
                 status |-> consent.status,
                 description |-> IF consent.description = Undefined
                                 THEN "" ELSE consent.description,
                 expiry_date |-> consent.expiry_date,
                 purpose |-> pairs[i][2]]]

\* a getExpiredConsents that looks at due dates only, not at the status
getExpiredConsentsDue(p, available, blob) ==
    SelectSeq(getConsents(p, available, blob), LAMBDA consent : _isExpired(consent))

getExpiredConsents(p, available, blob) ==
    SelectSeq(getConsents(p, available, blob),
              LAMBDA consent : consent.status = EXPIRED \/ _isExpired(consent))

configure ==
    /\ ~configured
    /\ configured' = TRUE
    /\ uuids' = 1
    /\ LET loaded == getPreferences(storageAvailable, storage)
           marked == ExpiredMarked(loaded)
       IN  /\ preferences' = marked
           /\ IF shouldSaveConsents(loaded)
              THEN /\ storage' = _savePreferences(storageAvailable, marked, storage)
                   /\ rounds' = <<ConsentRound(marked, "noop")>>
              ELSE UNCHANGED <<storage, rounds>>
           /\ expiredConsentsCallback' =
                 <<getExpiredConsents(marked, storageAvailable, storage')>>
    /\ lastStep' = Step("configure", <<>>)
    /\ UNCHANGED <<storageAvailable, calls, threw>>

-----------------------------------------------------------------------------
(* saveConsents, saveContexts and the settling of their dispatches *)

HostSaves == Cardinality({i \in 1..Len(rounds) : rounds[i].cb = "host"})
MaySave == configured /\ calls < MaxCalls /\ HostSaves < MaxSaves

saveConsents ==
    /\ MaySave
    /\ storage' = _savePreferences(storageAvailable, preferences, storage)
    /\ rounds' = Append(rounds, ConsentRound(preferences, Undefined))
    /\ calls' = calls + 1
    /\ threw' = FALSE
    /\ lastStep' = Step("saveConsents", <<>>)
    /\ UNCHANGED <<expiredConsentsCallback, configured, preferences, storageAvailable, uuids>>

saveContexts ==
    /\ MaySave
    /\ storage' = _savePreferences(storageAvailable, preferences, storage)
    /\ rounds' = Append(rounds, ContextRound(preferences))
    /\ calls' = calls + 1
    /\ threw' = FALSE
    /\ lastStep' = Step("saveContexts", <<>>)
    /\ UNCHANGED <<expiredConsentsCallback, configured, preferences, storageAvailable, uuids>>

AllResolved(pend) == \A i \in 1..Len(pend) : pend[i] = "resolved"

\* an aggregate that runs the fulfilment handlers once no dispatch is pending,
\* whether or not one of them was rejected
ResolveAfterReject(n, i) ==
    /\ rounds[n].pend[i] = "pending"
    /\ LET r == [rounds[n] EXCEPT !.pend[i] = "resolved"]
       IN  IF \A j \in 1..Len(r.pend) : r.pend[j] # "pending"
           THEN /\ rounds' = [rounds EXCEPT ![n] = Handled(r, preferences, "success", "")]
                /\ preferences' = AfterFinally(r, preferences)
           ELSE /\ rounds' = [rounds EXCEPT ![n] = r]
                /\ UNCHANGED preferences
    /\ lastStep' = Step("transport", <<>>)
    /\ UNCHANGED <<expiredConsentsCallback, configured, storage, storageAvailable, uuids, calls, threw>>

\* The transport accepts dispatch i of round n.  When it was the last one the
\* round waited for, Promise.all fulfils and the handlers run in the microtasks
\* of the same task.
Resolve(n, i) ==
    /\ rounds[n].pend[i] = "pending"
    /\ LET r == [rounds[n] EXCEPT !.pend[i] = "resolved"]
       IN  IF r.outcome = "pending" /\ AllResolved(r.pend)
           THEN /\ rounds' = [rounds EXCEPT ![n] = Handled(r, preferences, "success", "")]
                /\ preferences' = AfterFinally(r, preferences)
           ELSE /\ rounds' = [rounds EXCEPT ![n] = r]
                /\ UNCHANGED preferences
    /\ lastStep' = Step("transport", <<>>)
    /\ UNCHANGED <<expiredConsentsCallback, configured, storage, storageAvailable, uuids, calls, threw>>

\* an aggregate that runs the error handler on every rejection
RejectEvery(n, i, reason) ==
    /\ rounds[n].pend[i] = "pending"
    /\ LET r == [rounds[n] EXCEPT !.pend[i] = reason]
       IN  /\ rounds' = [rounds EXCEPT ![n] = Handled(r, preferences, "error", reason)]
           /\ preferences' = AfterFinally(r, preferences)
    /\ lastStep' = Step("transport", <<>>)
    /\ UNCHANGED <<expiredConsentsCallback, configured, storage, storageAvailable, uuids, calls, threw>>

\* The transport rejects dispatch i of round n with `reason`.  Promise.all
\* rejects with the first rejection, whatever the other dispatches do later.
Reject(n, i, reason) ==
    /\ rounds[n].pend[i] = "pending"
    /\ LET r == [rounds[n] EXCEPT !.pend[i] = reason]
       IN  IF r.outcome = "pending"
           THEN /\ rounds' = [rounds EXCEPT ![n] = Handled(r, preferences, "error", reason)]
                /\ preferences' = AfterFinally(r, preferences)
           ELSE /\ rounds' = [rounds EXCEPT ![n] = r]
                /\ UNCHANGED preferences
    /\ lastStep' = Step("transport", <<>>)
    /\ UNCHANGED <<expiredConsentsCallback, configured, storage, storageAvailable, uuids, calls, threw>>

\* Promise.all([]) is fulfilled from the start: its handlers run as microtasks
\* once the calling script has finished, so the page's own calls may come first.
SettleEmpty(n) ==
    /\ rounds[n].dispatched = <<>>
    /\ rounds[n].outcome = "pending"
    /\ rounds' = [rounds EXCEPT ![n] = Handled(rounds[n], preferences, "success", "")]
    /\ preferences' = AfterFinally(rounds[n], preferences)
    /\ lastStep' = Step("transport", <<>>)
    /\ UNCHANGED <<expiredConsentsCallback, configured, storage, storageAvailable, uuids, calls, threw>>


-----------------------------------------------------------------------------
(* Context registry *)

\* _.assign({}, a, b) on one property: b's value when b has the property
Over(aValue, bValue) == IF bValue # Undefined THEN bValue ELSE aValue

\* a generator function given as context_id, and the identifier it returns
GeneratorFn == "function"
GeneratedId == "c2"

\* the identifier addContext resolves, given the next fresh UUID
ResolvedContextId(context, fresh) ==
    CASE context.context_id = GeneratorFn -> GeneratedId
      [] context.context_id = Undefined -> fresh
      [] OTHER -> context.context_id

\* an addContext that always takes the branch of a new context
addContextStoreFresh(p, context, fresh) ==
    Put(p, ResolvedContextId(context, fresh),
        [context_id |-> ResolvedContextId(context, fresh),
         brand |-> context.brand,
         consents |-> EmptyMap])

\* the store after addContext(context)
addContextStore(p, context, fresh) ==
    LET contextId == ResolvedContextId(context, fresh)
        savedContext ==
            IF contextId \in DOMAIN p.ctx
            THEN [context_id |-> Over(p.ctx[contextId].context_id, context.context_id),
                  brand |-> Over(p.ctx[contextId].brand, context.brand),
                  consents |-> p.ctx[contextId].consents]
            ELSE [context_id |-> contextId,
                  brand |-> context.brand,
                  consents |-> EmptyMap]
    IN  Put(p, contextId, savedContext)

ContextInputs ==
    {[context_id |-> "c1", brand |-> "shop"],
     [context_id |-> Undefined, brand |-> "shop"],
     [context_id |-> GeneratorFn, brand |-> "blog"]}

addContext(context) ==
    /\ configured
    /\ calls < MaxCalls
    /\ calls' = calls + 1
    /\ uuids < Len(UUIDS)
    /\ preferences' = addContextStore(preferences, context, UUIDS[uuids + 1])
    /\ uuids' = IF context.context_id = Undefined THEN uuids + 1 ELSE uuids
    /\ threw' = FALSE
    /\ lastStep' = Step("addContext", <<context>>)
    /\ UNCHANGED <<expiredConsentsCallback, configured, storage, storageAvailable, rounds>>

\* the store after updateContext(contextId, values)
\* (values.consents is <<>> when `values` has no such property, and <<m>>
\* when it has one holding the object m)
updateContextStore(p, contextId, values) ==
    IF contextId \notin DOMAIN p.ctx
       \/ (values.context_id = Undefined /\ values.brand = Undefined
           /\ values.consents = <<>>)
    THEN p
    ELSE LET contextInfo ==
                 [context_id |-> Over(p.ctx[contextId].context_id, values.context_id),
                  brand |-> Over(p.ctx[contextId].brand, values.brand),
                  consents |-> values.consents]
         IN  Put(p, contextId,
                 [context_id |-> contextInfo.context_id,
                  brand |-> contextInfo.brand,
                  consents |-> IF contextInfo.consents # <<>>
                               THEN contextInfo.consents[1]
                               ELSE p.ctx[contextId].consents])

\* the context identifiers the page passes to updateContext and updateConsent
ContextIds == {DefaultContextId, "c1"}

ContextValues ==
    {[context_id |-> Undefined, brand |-> "blog", consents |-> <<>>],
     [context_id |-> "c9", brand |-> Undefined, consents |-> <<>>],
     [context_id |-> Undefined, brand |-> Undefined, consents |-> <<>>],
     [context_id |-> Undefined, brand |-> Undefined, consents |-> <<EmptyMap>>]}

ContextUpdates == {<<"c1", values>> : values \in ContextValues}

updateContext(contextId, values) ==
    /\ configured
    /\ calls < MaxCalls
    /\ calls' = calls + 1
    /\ preferences' = updateContextStore(preferences, contextId, values)
    /\ threw' = FALSE
    /\ lastStep' = Step("updateContext", <<contextId, values>>)
    /\ UNCHANGED <<expiredConsentsCallback, configured, storage, storageAvailable, rounds, uuids>>

-----------------------------------------------------------------------------
(* Consent record store *)

\* this.defaultContext as configure built it (brand is the page's hostname)
defaultContext ==
    [context_id |-> DefaultContextId, brand |-> "hostname", consents |-> EmptyMap]

\* an addConsents that flags the consents it creates
newConsentFlagged(fields, status, expiryDate, contextId) ==
    [status |-> status,
     expiry_date |-> expiryDate,
     context_id |-> contextId,
     description |-> fields.description,
     _updated |-> TRUE]

\* the consent addConsents creates for a purpose the context does not hold
newConsent(fields, status, expiryDate, contextId) ==
    [status |-> status,
     expiry_date |-> expiryDate,
     context_id |-> contextId,
     description |-> fields.description,
     _updated |-> FALSE]

\* One pass of the loop body of addConsents for consents[key] = fields, from
\* the store p: the store it leaves, and whether line 490 raised a TypeError
\* (this.consentManager.preferences[contextId] is undefined).
addOneConsent(p, key, fields) ==
    LET status == IF _isValidStatus(fields.status) THEN fields.status ELSE NOTGIVEN
        contextId == IF fields.context_id = Undefined
                     THEN DefaultContextId
                     ELSE fields.context_id
        q == IF fields.context_id = Undefined /\ contextId \notin DOMAIN p.ctx
             THEN Put(p, contextId, defaultContext)
             ELSE p
        known == contextId \in DOMAIN q.ctx
        hasCurrent == known /\ key \in DOMAIN q.ctx[contextId].consents
        expiryDate == parseExpiry(fields.expiry_date, NoDate)
        augmentedConsent ==
            IF hasCurrent
            THEN LET current == q.ctx[contextId].consents[key]
                 IN  [status |-> Over(current.status, fields.status),
                      expiry_date |-> expiryDate,
                      context_id |-> Over(current.context_id, fields.context_id),
                      description |-> Over(current.description, fields.description),
                      _updated |-> current._updated]
            ELSE newConsent(fields, status, expiryDate, contextId)
    IN  IF known
        THEN [store |-> [q EXCEPT !.ctx[contextId].consents =
                            PutConsent(@, key, augmentedConsent)],
              threw |-> FALSE]
        ELSE [store |-> q, threw |-> TRUE]

\* the for..in loop of addConsents over the entries of `consents`, a sequence
\* of <<key, fields>>; an exception ends the loop and keeps what was done
RECURSIVE addConsentsLoop(_, _)
addConsentsLoop(p, consents) ==
    IF consents = <<>>
    THEN [store |-> p, threw |-> FALSE]
    ELSE LET one == addOneConsent(p, Head(consents)[1], Head(consents)[2])
         IN  IF one.threw
             THEN one
             ELSE addConsentsLoop(one.store, Tail(consents))

Fields(status, expiryDate, contextId, description) ==
    [status |-> status, expiry_date |-> expiryDate, context_id |-> contextId,
     description |-> description]

\* what the page passes to addConsents: one purpose, or two in one call
ConsentsInputs ==
    {<< <<"a", f>> >> : f \in
        {Fields(Undefined, Undefined, Undefined, Undefined),
         Fields("given", "2000-01-01", Undefined, "d2"),
         Fields("bogus", "garbage", "c1", Undefined),
         Fields("given", "2099-01-01", "c1", Undefined)}}
    \cup {<< <<"b", Fields("refused", Undefined, Undefined, Undefined)>> >>,
          << <<"b", Fields("given", Undefined, Undefined, Undefined)>>,
             <<"a", Fields("refused", Undefined, "c2", Undefined)>> >>}

addConsents(consents) ==
    /\ configured
    /\ calls < MaxCalls
    /\ calls' = calls + 1
    /\ LET done == addConsentsLoop(preferences, consents)
       IN  /\ preferences' = done.store
           /\ threw' = done.threw
    /\ lastStep' = Step("addConsents", <<consents>>)
    /\ UNCHANGED <<expiredConsentsCallback, configured, storage, storageAvailable, rounds, uuids>>

\* an updateConsent that registers the context it does not know
updateConsentRegistering(p, contextId, consentPurpose, fields) ==
    IF contextId \notin DOMAIN p.ctx
    THEN [store |-> Put(p, contextId,
                        [context_id |-> contextId, brand |-> Undefined,
                         consents |-> EmptyMap]),
          threw |-> FALSE]
    ELSE [store |-> p, threw |-> FALSE]

\* updateConsent(contextId, {consentPurpose: fields}): the store it leaves and
\* whether it raised.  The loop looks for a stored purpose that matches
\* consentPurpose after camelCase, but every read and the write go to
\* currentConsents[consentPurpose], which is undefined when consentPurpose is
\* not itself a stored key.  consentPurpose = Undefined stands for the empty
\* object {} given as consent.
updateConsentResult(p, contextId, consentPurpose, fields) ==
    IF contextId \notin DOMAIN p.ctx \/ consentPurpose = Undefined
    THEN [store |-> p, threw |-> FALSE]
    ELSE
    LET currentConsents == p.ctx[contextId].consents
        matched == \E purpose \in DOMAIN currentConsents :
                        camelCase(purpose) = camelCase(consentPurpose)
        defined == consentPurpose \in DOMAIN currentConsents
        statusGiven == _isValidStatus(fields.status)
        dateGiven == parseExpiry(fields.expiry_date, Invalid) # Invalid
        current == currentConsents[consentPurpose]
        updated ==
            [status |-> IF statusGiven THEN fields.status ELSE current.status,
             expiry_date |-> IF dateGiven
                             THEN parseExpiry(fields.expiry_date, Invalid)
                             ELSE current.expiry_date,
             context_id |-> Over(IF defined THEN current.context_id ELSE Undefined,
                                 fields.context_id),
             description |-> Over(IF defined THEN current.description ELSE Undefined,
                                  fields.description),
             _updated |-> TRUE]
    IN  IF ~matched
        THEN [store |-> p, threw |-> FALSE]
        ELSE IF ~defined /\ (~statusGiven \/ ~dateGiven)
        THEN [store |-> p, threw |-> TRUE]
        ELSE [store |-> [p EXCEPT !.ctx[contextId].consents =
                            PutConsent(@, consentPurpose, updated)],
              threw |-> FALSE]

\* what the page passes to updateConsent: <<contextId, consentPurpose, fields>>
ConsentUpdates ==
    {<<c, "a", Fields("refused", Undefined, Undefined, Undefined)>> : c \in ContextIds}
    \cup {<<c, "A", Fields("refused", "2099-01-01", Undefined, Undefined)>> : c \in ContextIds}
    \cup {<<"c1", "a", Fields("bogus", Undefined, Undefined, "d3")>>,
          <<"c1", "a", Fields("given", "2099-01-01", "c2", Undefined)>>,
          <<"c1", "A", Fields("refused", Undefined, Undefined, Undefined)>>,
          <<"c1", "b", Fields(Undefined, Undefined, Undefined, Undefined)>>,
          <<"c1", Undefined, Fields(Undefined, Undefined, Undefined, Undefined)>>}

updateConsent(contextId, consentPurpose, fields) ==
    /\ configured
    /\ calls < MaxCalls
    /\ calls' = calls + 1
    /\ LET done == updateConsentResult(preferences, contextId, consentPurpose, fields)
       IN  /\ preferences' = done.store
           /\ threw' = done.threw
    /\ lastStep' = Step("updateConsent", <<contextId, consentPurpose, fields>>)
    /\ UNCHANGED <<expiredConsentsCallback, configured, storage, storageAvailable, rounds, uuids>>

-----------------------------------------------------------------------------
(* Read operations *)

\* getConsentExpiryDate(contextId, consentPurpose): what it returns (NoDate
\* for null) and whether line 584 raised a TypeError, preferences[contextId]
\* being undefined
getConsentExpiryDateResult(p, contextId, consentPurpose) ==
    IF contextId = Undefined \/ consentPurpose = Undefined
    THEN [value |-> Undefined, threw |-> FALSE]
    ELSE IF contextId \notin DOMAIN p.ctx
    THEN [value |-> Undefined, threw |-> TRUE]
    ELSE [value |-> IF consentPurpose \in DOMAIN p.ctx[contextId].consents
                    THEN p.ctx[contextId].consents[consentPurpose].expiry_date
                    ELSE NoDate,
          threw |-> FALSE]

getConsentExpiryDate(contextId, consentPurpose) ==
    /\ configured
    /\ calls < MaxCalls
    /\ calls' = calls + 1
    /\ LET done == getConsentExpiryDateResult(preferences, contextId, consentPurpose)
       IN  /\ threw' = done.threw
           /\ lastStep' = Step("getConsentExpiryDate",
                               <<contextId, consentPurpose, done.value>>)
    /\ UNCHANGED <<expiredConsentsCallback, configured, preferences, storage,
                   storageAvailable, rounds, uuids>>

-----------------------------------------------------------------------------

Next ==
    \/ configure
    \/ saveConsents
    \/ saveContexts
    \/ \E n \in 1..Len(rounds) : \E i \in 1..Len(rounds[n].pend) : Resolve(n, i)
    \/ \E n \in 1..Len(rounds) : \E i \in 1..Len(rounds[n].pend) :
            \E reason \in Reasons : Reject(n, i, reason)
    \/ \E n \in 1..Len(rounds) : SettleEmpty(n)
    \/ \E context \in ContextInputs : addContext(context)
    \/ \E u \in ContextUpdates : updateContext(u[1], u[2])
    \/ \E consents \in ConsentsInputs : addConsents(consents)
    \/ \E u \in ConsentUpdates : updateConsent(u[1], u[2], u[3])
    \/ \E contextId \in ContextIds : getConsentExpiryDate(contextId, "a")

Spec == Init /\ [][Next]_vars


\* The transport answers every dispatch in the end, and the microtasks of a
\* settled aggregate are run.
Transport ==
    \/ \E n \in 1..Len(rounds) : \E i \in 1..Len(rounds[n].pend) : Resolve(n, i)
    \/ \E n \in 1..Len(rounds) : \E i \in 1..Len(rounds[n].pend) :
            \E reason \in Reasons : Reject(n, i, reason)
    \/ \E n \in 1..Len(rounds) : SettleEmpty(n)

\* The page loads, updates consents and saves them; the operations left out
\* write neither rounds nor callbacks.
NextSync ==
    \/ configure
    \/ saveConsents
    \/ Transport
    \/ \E u \in ConsentUpdates : updateConsent(u[1], u[2], u[3])

FairSpec == Init /\ [][NextSync]_vars /\ WF_vars(Transport)

-----------------------------------------------------------------------------
(* A storage that is accessible but refuses a write: localStorage.setItem
   throws (QuotaExceededError) and nothing in _savePreferences, saveConsents,
   saveContexts or configure catches it, so the call ends there. *)

WouldWrite(p) == storageAvailable /\ p.order # <<>>

saveConsentsQuotaExceeded ==
    /\ MaySave
    /\ WouldWrite(preferences)
    /\ calls' = calls + 1
    /\ threw' = TRUE
    /\ lastStep' = Step("saveConsents", <<>>)
    /\ UNCHANGED <<expiredConsentsCallback, configured, preferences, storage,
                   storageAvailable, rounds, uuids>>

saveContextsQuotaExceeded ==
    /\ MaySave
    /\ WouldWrite(preferences)
    /\ calls' = calls + 1
    /\ threw' = TRUE
    /\ lastStep' = Step("saveContexts", <<>>)
    /\ UNCHANGED <<expiredConsentsCallback, configured, preferences, storage,
                   storageAvailable, rounds, uuids>>

\* configure whose silent saveConsents cannot write: the exception leaves
\* _updateExpiredConsents and configure before expiredConsentsCallback is called
configureQuotaExceeded ==
    /\ ~configured
    /\ LET loaded == getPreferences(storageAvailable, storage)
       IN  /\ shouldSaveConsents(loaded)
           /\ WouldWrite(loaded)
           /\ preferences' = ExpiredMarked(loaded)
    /\ configured' = TRUE
    /\ uuids' = 1
    /\ threw' = TRUE
    /\ lastStep' = Step("configure", <<>>)
    /\ UNCHANGED <<expiredConsentsCallback, storage, storageAvailable, rounds, calls>>

NextQuota ==
    \/ Next
    \/ saveConsentsQuotaExceeded
    \/ saveContextsQuotaExceeded
    \/ configureQuotaExceeded

SpecQuota == Init /\ [][NextQuota]_vars

-----------------------------------------------------------------------------
(* Vocabulary of the properties *)

ConsentRounds == {n \in 1..Len(rounds) : rounds[n].table = "consent"}

\* every (contextId, consentKey) of a store
Pairs(p) == UNION {{<<c, k>> : k \in DOMAIN p.ctx[c].consents} : c \in DOMAIN p.ctx}

FlaggedPairs(p) == {q \in Pairs(p) : ConsentAt(p, q)._updated}

RecordOf(p, q) == _getNormalizedConsent(q[2], ConsentAt(p, q))

\* how often `record` was dispatched by a round, and how many consents of S it describes
TimesDispatched(r, record) ==
    Cardinality({i \in 1..Len(r.dispatched) : r.dispatched[i] = record})
TimesIn(p, S, record) == Cardinality({q \in S : RecordOf(p, q) = record})

\* the round dispatched one record for each consent of S, and no other record
DispatchedExactly(r, S) ==
    /\ Len(r.dispatched) = Cardinality(S)
    /\ \A q \in S :
         TimesDispatched(r, RecordOf(r.store, q)) = TimesIn(r.store, S, RecordOf(r.store, q))

-----------------------------------------------------------------------------
(* C1: every saveConsents call dispatches exactly one record for each flagged
   consent and none for an unflagged one when some consent is flagged, and
   exactly one record for every consent of every context when none is: never
   records of both partitions. *)
C1_DispatchOnePartition ==
    \A n \in ConsentRounds :
        LET r == rounds[n]
        IN  IF FlaggedPairs(r.store) # {}
            THEN DispatchedExactly(r, FlaggedPairs(r.store))
            ELSE DispatchedExactly(r, Pairs(r.store))

\* a call made while the store held flagged and unflagged consents
C1_Witness ==
    \E n \in ConsentRounds :
        /\ rounds[n].cb = "host"
        /\ FlaggedPairs(rounds[n].store) # {}
        /\ FlaggedPairs(rounds[n].store) # Pairs(rounds[n].store)
        /\ Len(rounds[n].dispatched) = 1


-----------------------------------------------------------------------------
\* the records onSuccess got from round r
Reported(r) == {r.reported[k] : k \in DOMAIN r.reported}

NoReconcilerRound == \A n \in 1..Len(rounds) : rounds[n].cb = "host"

(* C2: after updateConsent has marked exactly one purpose among the N stored
   consents, a saveConsents whose dispatches all succeed reports exactly that
   one purpose to onSuccess, and the next saveConsents, made after the first
   has settled and with no update in between, reports all N consents. *)
C2_DeltaThenFullSet ==
    NoReconcilerRound =>
    \A n \in ConsentRounds : \A m \in ConsentRounds :
        LET first == rounds[n]
            second == rounds[m]
            marked == FlaggedPairs(first.store)
        IN  (/\ n < m
             /\ Cardinality(marked) = 1
             /\ first.outcome = "success"
             /\ second.store = _resetUpdatedStatus(first.store))
            => /\ Reported(first) = {RecordOf(first.store, q) : q \in marked}
               /\ second.outcome = "success"
                    => /\ Cardinality(DOMAIN second.reported)
                            = Cardinality(Pairs(second.store))
                       /\ \A q \in Pairs(second.store) :
                            RecordOf(second.store, q) \in Reported(second)

(* C3: when all dispatches of a saveConsents call succeed, the records passed
   to onSuccess are exactly the records the call dispatched, one per
   dispatched consent, whatever the store held and whatever was changed
   between the dispatch and its settlement. *)
C3_ReportedIsDispatched ==
    \A n \in ConsentRounds :
        (rounds[n].cb = "host" /\ rounds[n].outcome = "success")
        => /\ Reported(rounds[n]) = Range(rounds[n].dispatched)
           /\ Cardinality(DOMAIN rounds[n].reported) = Len(rounds[n].dispatched)

-----------------------------------------------------------------------------
\* dispatch i of round n is rejected in this step
RejectedNow(n, i) == rounds[n].pend[i] = "pending" /\ rounds'[n].pend[i] \in Reasons
RejectedBefore(n) == \E j \in 1..Len(rounds[n].pend) : rounds[n].pend[j] \in Reasons

(* C4: when a dispatch of a saveConsents call is rejected, onError gets
   {success: false, message: <reason of the first rejection>}: the first
   rejection of a round sets the message to its own reason, a later one
   leaves it, and onSuccess is not invoked for that round, then or later. *)
C4_ErrorIsFirstRejection ==
    [][\A n \in ConsentRounds :
          /\ \A i \in 1..Len(rounds[n].pend) :
                RejectedNow(n, i)
                => /\ rounds'[n].outcome = "error"
                   /\ rounds'[n].reported = EmptyMap
                   /\ rounds'[n].message = IF RejectedBefore(n)
                                           THEN rounds[n].message
                                           ELSE rounds'[n].pend[i]
          /\ rounds[n].outcome = "error"
                => /\ rounds'[n].outcome = "error"
                   /\ rounds'[n].message = rounds[n].message
                   /\ rounds'[n].reported = EmptyMap
          /\ rounds[n].outcome = "success" => ~RejectedBefore(n)]_vars

\* a failed round two of whose dispatches were rejected, with different reasons
C4_Witness ==
    \E n \in ConsentRounds :
        /\ rounds[n].outcome = "error"
        /\ \E i, j \in 1..Len(rounds[n].pend) :
              /\ rounds[n].pend[i] = rounds[n].message
              /\ rounds[n].pend[j] \in Reasons \ {rounds[n].message}

-----------------------------------------------------------------------------
\* round n goes from undecided to decided in this step
SettlesNow(n) == rounds[n].outcome = "pending" /\ rounds'[n].outcome # "pending"

(* C5: when a saveConsents round whose changed partition was non-empty
   settles, by success or by failure, every consent of every context has
   _updated cleared; when its changed partition was empty the round changes
   no _updated flag (the store is left as it is). *)
C5_ResetOnSettle ==
    [][\A n \in ConsentRounds :
          SettlesNow(n)
          => IF FlaggedPairs(rounds[n].store) # {}
             THEN FlaggedPairs(preferences') = {}
             ELSE preferences' = preferences]_vars

\* a round with a changed partition has failed, and one has succeeded, with
\* other consents in the store
C5_Witness ==
    /\ \E n \in ConsentRounds :
          /\ FlaggedPairs(rounds[n].store) # {}
          /\ rounds[n].outcome = "error"
    /\ \E n \in ConsentRounds :
          /\ FlaggedPairs(rounds[n].store) # {}
          /\ rounds[n].outcome = "success"
    /\ Cardinality(Pairs(preferences)) > 1

-----------------------------------------------------------------------------
FailedDelta(n) ==
    /\ n \in ConsentRounds
    /\ FlaggedPairs(rounds[n].store) # {}
    /\ rounds[n].outcome = "error"

\* this step is a saveConsents call made after a round with a changed
\* partition has failed, no consent having been updated since
RetryNow ==
    /\ Len(rounds') = Len(rounds) + 1
    /\ rounds'[Len(rounds')].table = "consent"
    /\ \E n \in 1..Len(rounds) : FailedDelta(n)
    /\ FlaggedPairs(preferences) = {}

(* C6, as stated: after a saveConsents round with a non-empty changed
   partition has failed, a retried saveConsents with no new updateConsent in
   between dispatches no consent record. *)
C6_RetrySendsNothing ==
    [][RetryNow => rounds'[Len(rounds')].dispatched = <<>>]_vars

(* C6, amended: such a retry does not resend the failed delta as a delta; it
   dispatches exactly one record for every consent of every context. *)
C6_RetrySendsFullSet ==
    [][RetryNow
       => DispatchedExactly(rounds'[Len(rounds')], Pairs(preferences))]_vars

\* a retry was made after a failed delta, with more consents than the delta had
C6_Witness ==
    \E n \in ConsentRounds : \E m \in ConsentRounds :
        /\ n < m
        /\ FailedDelta(n)
        /\ rounds[m].store = _resetUpdatedStatus(rounds[n].store)
        /\ Len(rounds[m].dispatched) > Len(rounds[n].dispatched)

-----------------------------------------------------------------------------
\* some consent's _updated flag goes from set to cleared in this step
FlagsCleared ==
    \E q \in FlaggedPairs(preferences) :
        q \in Pairs(preferences') /\ q \notin FlaggedPairs(preferences')

(* C7: flags are cleared by a round only after all dispatches of
   that round have settled; no round clears flags while one of its dispatches
   is still pending. *)
C7_ResetAfterAllSettled ==
    [][FlagsCleared
       => \E n \in ConsentRounds :
            /\ SettlesNow(n)
            /\ \A i \in 1..Len(rounds'[n].pend) : rounds'[n].pend[i] # "pending"]_vars

-----------------------------------------------------------------------------
(* C8: the blob in durable storage never holds an _updated field on any
   consent, whatever was added, updated, reconciled or saved. *)
C8_UpdatedNeverPersisted ==
    \A c \in DOMAIN storage.ctx : \A k \in DOMAIN storage.ctx[c].consents :
        "_updated" \notin DOMAIN storage.ctx[c].consents[k]

\* the store was persisted while one of its consents was flagged
C8_Witness ==
    /\ storageAvailable
    /\ \E n \in 1..Len(rounds) :
          /\ FlaggedPairs(rounds[n].store) # {}
          /\ rounds[n].cb = "host"
          /\ storage = _stringifyPreferences(rounds[n].store)

-----------------------------------------------------------------------------
(* C9: the status of every consent of the store is exactly one of given,
   refused, notgiven, expired (an invalid or missing status given to
   addConsents giving notgiven, an invalid one given to updateConsent leaving
   the current status). *)
C9_StatusEnumerated ==
    \A q \in Pairs(preferences) : ConsentAt(preferences, q).status \in CONSENT_STATES

(* C10: every consent stored under preferences[c].consents has context_id = c. *)
C10_ContextIdIsKey ==
    \A q \in Pairs(preferences) : ConsentAt(preferences, q).context_id = q[1]

-----------------------------------------------------------------------------
\* the step just taken was a call of `op` by the page
Called(op) == lastStep.op = op
\* this step is a call of `op` by the page
Calls(op) == lastStep'.op = op /\ calls' = calls + 1

(* C11: a context stored under key c has context_id = c, and keeps it: no
   addContext (with a string or a generator function as context_id) and no
   updateContext changes the context_id of a context already stored. *)
C11_ContextIdStable ==
    \A c \in DOMAIN preferences.ctx : preferences.ctx[c].context_id = c

-----------------------------------------------------------------------------
(* C12: updateConsent with a context id that is not in the store, or with an
   empty consent object, leaves the whole store as it was: no field and no
   _updated flag changes, nothing is created, and nothing is raised. *)
C12_UpdateConsentNoOp ==
    [][(/\ Calls("updateConsent")
        /\ \/ lastStep'.args[1] \notin DOMAIN preferences.ctx
           \/ lastStep'.args[2] = Undefined)
       => preferences' = preferences /\ ~threw']_vars

\* updateConsent has been called for an unknown context on a store that
\* holds consents
C12_Witness ==
    /\ Called("updateConsent")
    /\ lastStep.args[1] \notin DOMAIN preferences.ctx
    /\ lastStep.args[2] # Undefined
    /\ Pairs(preferences) # {}

-----------------------------------------------------------------------------
\* the stored purposes of context c that match purpose p after normalization
Matching(p, c, purpose) ==
    {k \in DOMAIN p.ctx[c].consents : camelCase(k) = camelCase(purpose)}

\* the fields of a consent that `fields` does not give are the same in both
KeepsUnspecified(before, after, fields) ==
    /\ fields.status = Undefined => after.status = before.status
    /\ fields.expiry_date = Undefined => after.expiry_date = before.expiry_date
    /\ fields.context_id = Undefined => after.context_id = before.context_id
    /\ fields.description = Undefined => after.description = before.description

(* C13: updateConsent(c, {p: fields}) on a stored context c, p matching a
   stored purpose key k after normalization (p = k or not), updates the
   consent stored under k in place: no consent entry is created, the fields
   the call does not give keep their values, the consent is flagged, and no
   other consent of the store changes. *)
C13_UpdateInPlace ==
    [][\A c \in DOMAIN preferences.ctx :
          (/\ Calls("updateConsent")
           /\ lastStep'.args[1] = c
           /\ lastStep'.args[2] # Undefined
           /\ Matching(preferences, c, lastStep'.args[2]) # {})
          => /\ ~threw'
             /\ DOMAIN preferences'.ctx = DOMAIN preferences.ctx
             /\ \A d \in DOMAIN preferences.ctx \ {c} :
                    preferences'.ctx[d] = preferences.ctx[d]
             /\ DOMAIN preferences'.ctx[c].consents = DOMAIN preferences.ctx[c].consents
             /\ \E k \in Matching(preferences, c, lastStep'.args[2]) :
                    /\ preferences'.ctx[c].consents[k]._updated
                    /\ KeepsUnspecified(preferences.ctx[c].consents[k],
                                        preferences'.ctx[c].consents[k],
                                        lastStep'.args[3])
                    /\ \A j \in DOMAIN preferences.ctx[c].consents \ {k} :
                           preferences'.ctx[c].consents[j]
                               = preferences.ctx[c].consents[j]]_vars

-----------------------------------------------------------------------------
(* C14: addConsents never sets _updated: every consent that was stored keeps
   its flag, a consent the call creates is not flagged, and a saveConsents
   that follows sends the changed partition as it was before the call. *)
C14_AddConsentsDoesNotFlag ==
    [][/\ Calls("addConsents")
          => /\ \A q \in Pairs(preferences') \ Pairs(preferences) :
                    ~ConsentAt(preferences', q)._updated
             /\ \A q \in Pairs(preferences) :
                    /\ q \in Pairs(preferences')
                    /\ ConsentAt(preferences', q)._updated
                           = ConsentAt(preferences, q)._updated
       /\ (Called("addConsents") /\ Calls("saveConsents")
            /\ FlaggedPairs(preferences) # {})
          => DispatchedExactly(rounds'[Len(rounds')], FlaggedPairs(preferences))]_vars

\* a saveConsents made on a store that holds one flagged consent and a consent
\* addConsents has created (the only source of status notgiven here): one
\* record was dispatched
C14_Witness ==
    /\ Called("saveConsents")
    /\ LET r == rounds[Len(rounds)]
       IN  /\ r.table = "consent"
           /\ Cardinality(FlaggedPairs(r.store)) = 1
           /\ Len(r.dispatched) = 1
           /\ \E q \in Pairs(r.store) \ FlaggedPairs(r.store) :
                 ConsentAt(r.store, q).status = NOTGIVEN

-----------------------------------------------------------------------------
\* the context addConsents resolves for an entry with these fields
ResolvedContext(fields) ==
    IF fields.context_id = Undefined THEN DefaultContextId ELSE fields.context_id

(* C15: addConsents for a purpose the resolved context already holds merges
   the given fields over the stored consent: every field the call does not
   give, status and expiry_date included, keeps its value. *)
C15_AddConsentsMerges ==
    [][Calls("addConsents")
       => \A i \in 1..Len(lastStep'.args[1]) :
            LET key == lastStep'.args[1][i][1]
                fields == lastStep'.args[1][i][2]
                c == ResolvedContext(fields)
            IN  (c \in DOMAIN preferences.ctx /\ key \in DOMAIN preferences.ctx[c].consents)
                => KeepsUnspecified(preferences.ctx[c].consents[key],
                                    preferences'.ctx[c].consents[key],
                                    fields)]_vars

-----------------------------------------------------------------------------
\* the argument of addContext names its context by a string
ExplicitId(context) == context.context_id \notin {Undefined, GeneratorFn}

(* C16: addContext with an explicit context_id that is already stored keeps
   one context under that id and keeps the consents attached to it; when the
   fields are those of the earlier call, the store is what that call left. *)
C16_AddContextIdempotent ==
    [][\A c \in DOMAIN preferences.ctx :
          (/\ Calls("addContext")
           /\ ExplicitId(lastStep'.args[1])
           /\ lastStep'.args[1].context_id = c)
          => /\ preferences'.order = preferences.order
             /\ DOMAIN preferences'.ctx = DOMAIN preferences.ctx
             /\ preferences'.ctx[c].consents = preferences.ctx[c].consents
             /\ (/\ preferences.ctx[c].context_id = c
                 /\ preferences.ctx[c].brand = lastStep'.args[1].brand)
                => preferences' = preferences]_vars

\* On a store that was loaded empty: c1 was added, a consent was attached to
\* it, and c1 has been added again (three calls; only addContext creates c1)
C16_Witness ==
    /\ storageAvailable /\ storage = NoBlob
    /\ calls = 3
    /\ Called("addContext")
    /\ lastStep.args[1].context_id = "c1"
    /\ "c1" \in DOMAIN preferences.ctx
    /\ preferences.ctx["c1"].consents # EmptyMap

-----------------------------------------------------------------------------
\* the object given to updateContext has no property
NoValues(values) ==
    values.context_id = Undefined /\ values.brand = Undefined /\ values.consents = <<>>

(* C17: updateContext changes nothing when the context is not stored or the
   values are empty; otherwise it changes fields of that context only, never
   its consents map (whatever the values hold, a property named consents
   included) and no other context. *)
C17_UpdateContextFrame ==
    [][Calls("updateContext")
       => LET c == lastStep'.args[1]
              values == lastStep'.args[2]
          IN  IF c \notin DOMAIN preferences.ctx \/ NoValues(values)
              THEN preferences' = preferences
              ELSE /\ preferences'.order = preferences.order
                   /\ DOMAIN preferences'.ctx = DOMAIN preferences.ctx
                   /\ \A d \in DOMAIN preferences.ctx \ {c} :
                          preferences'.ctx[d] = preferences.ctx[d]
                   /\ preferences'.ctx[c].consents = preferences.ctx[c].consents]_vars

-----------------------------------------------------------------------------
\* the consents storage holds for this page load, as <<contextId, key>>
StoredPairs ==
    IF storageAvailable THEN Pairs(storage) ELSE {}

\* the stored consent q is given and its expiry date lies before now
Due(q) ==
    LET stored == storage.ctx[q[1]].consents[q[2]]
    IN  /\ stored.status = GIVEN
        /\ stored.expiry_date # NoDate
        /\ dayjsValueOf(stored.expiry_date) < Today

\* getExpiredConsents() of the state reached lists consent q as expired
ListedExpired(q) ==
    \E i \in 1..Len(getExpiredConsents(preferences', storageAvailable, storage')) :
        LET listed == getExpiredConsents(preferences', storageAvailable, storage')[i]
        IN  /\ listed.context_id = q[1]
            /\ listed.purpose = q[2]
            /\ listed.status = EXPIRED

(* C18: after configure, every consent loaded from storage that was given
   with an expiry date in the past is expired and flagged, and is listed by
   getExpiredConsents(); every other loaded consent has the status it was
   stored with. *)
C18_ExpiryReconciliation ==
    [][lastStep'.op = "configure"
       => /\ Pairs(preferences') = StoredPairs
          /\ \A q \in StoredPairs :
                IF Due(q)
                THEN /\ ConsentAt(preferences', q).status = EXPIRED
                     /\ ConsentAt(preferences', q)._updated
                     /\ ListedExpired(q)
                ELSE ConsentAt(preferences', q).status
                        = storage.ctx[q[1]].consents[q[2]].status]_vars

\* configure has flipped a consent and left another one as it was
C18_Witness ==
    /\ Called("configure")
    /\ \E q \in FlaggedPairs(preferences) :
          /\ ConsentAt(preferences, q).status = EXPIRED
          /\ \E o \in Pairs(preferences) \ {q} : ConsentAt(preferences, o).status = REFUSED

-----------------------------------------------------------------------------
(* C19: configure persists and syncs (saveConsents) if and only if the
   reconciliation has flipped a consent to expired, and that sync is silent:
   its round has the callbacks (_.noop, _.noop), not the configured
   successConsentCallback / failureConsentCallback, and no later step gives
   a round other callbacks, however its dispatches end. *)
C19_SilentSync ==
    [][/\ lastStep'.op = "configure"
          => IF \E q \in StoredPairs : Due(q)
             THEN /\ Len(rounds') = 1
                  /\ rounds'[1].table = "consent"
                  /\ rounds'[1].cb = "noop"
                  /\ rounds'[1].dispatched # <<>>
                  /\ storage' = _stringifyPreferences(preferences')
             ELSE rounds' = <<>> /\ storage' = storage
       /\ \A n \in 1..Len(rounds) :
             /\ n <= Len(rounds')
             /\ rounds'[n].cb = rounds[n].cb]_vars

\* the sync configure started has failed, and its callbacks are _.noop
C19_Witness ==
    \E n \in ConsentRounds :
        /\ rounds[n].cb = "noop"
        /\ rounds[n].outcome = "error"

-----------------------------------------------------------------------------
\* the consents of store p whose status is expired
ExpiredPairs(p) == {q \in Pairs(p) : ConsentAt(p, q).status = EXPIRED}

(* C20: configure invokes expiredConsentsCallback exactly once, after the
   reconciliation has flipped the statuses, with the list of the consents
   that are expired then (an empty list when there are none); no other step
   invokes it. *)
C20_ExpiredCallbackOnce ==
    [][IF lastStep'.op = "configure"
       THEN /\ Len(expiredConsentsCallback') = 1
            /\ LET list == expiredConsentsCallback'[1]
               IN  /\ Len(list) = Cardinality(ExpiredPairs(preferences'))
                   /\ \A i \in 1..Len(list) : list[i].status = EXPIRED
                   /\ {<<list[i].context_id, list[i].purpose>> : i \in 1..Len(list)}
                         = ExpiredPairs(preferences')
       ELSE expiredConsentsCallback' = expiredConsentsCallback]_vars

\* the page has made all its calls after a configure that reported a consent
\* it had just flipped: the callback has run once
C20_Witness ==
    /\ calls = MaxCalls
    /\ Len(expiredConsentsCallback) = 1
    /\ expiredConsentsCallback[1] # <<>>
    /\ \E n \in ConsentRounds : rounds[n].cb = "noop"

-----------------------------------------------------------------------------
\* the round this step has started
NewRound == rounds'[Len(rounds')]
StartsRound == Len(rounds') = Len(rounds) + 1

(* C21: with the storage unavailable, saveConsents raises nothing, leaves the
   storage content as it is and still dispatches the partition it would
   dispatch otherwise; the round then succeeds only when all its dispatches
   were accepted (and does so as soon as they are) and fails exactly when one
   was rejected. *)
C21_StorageUnavailable ==
    [][~storageAvailable
       => /\ Calls("saveConsents")
             => /\ ~threw'
                /\ storage' = storage
                /\ StartsRound
                /\ NewRound.table = "consent"
                /\ IF FlaggedPairs(preferences) # {}
                   THEN DispatchedExactly(NewRound, FlaggedPairs(preferences))
                   ELSE DispatchedExactly(NewRound, Pairs(preferences))
          /\ \A n \in ConsentRounds :
                /\ storage' = storage
                /\ rounds'[n].outcome = "success" => AllResolved(rounds'[n].pend)
                /\ (rounds'[n].pend # <<>> /\ AllResolved(rounds'[n].pend))
                      => rounds'[n].outcome = "success"
                /\ rounds'[n].outcome = "error"
                      <=> \E i \in 1..Len(rounds'[n].pend) : rounds'[n].pend[i] \in Reasons]_vars

\* without storage, the page's saveConsents has dispatched a consent and has
\* succeeded, and another has failed
C21_Witness ==
    /\ ~storageAvailable
    /\ \E n \in ConsentRounds :
          rounds[n].dispatched # <<>> /\ rounds[n].outcome = "success"
    /\ \E n \in ConsentRounds :
          rounds[n].dispatched # <<>> /\ rounds[n].outcome = "error"

-----------------------------------------------------------------------------
(* C22: no public operation raises an exception to its caller, whatever its
   arguments and the state: the last call of the page has returned normally. *)
C22_NothingThrown == ~threw

-----------------------------------------------------------------------------
(* C23: the core deletes no context and no consent: in every step the set of
   context ids of the store and the set of its (context id, purpose) pairs
   keep all they held. *)
C23_NeverDeleted ==
    [][/\ DOMAIN preferences.ctx \subseteq DOMAIN preferences'.ctx
       /\ Pairs(preferences) \subseteq Pairs(preferences')]_vars

-----------------------------------------------------------------------------
ContextRounds == {n \in 1..Len(rounds) : rounds[n].table = "context"}

(* C24: saveContexts dispatches one record for each stored context, holding
   the context's fields without its consents; the round succeeds only when
   all its dispatches were accepted, and when one is rejected it fails with
   the reason of the first rejection, which no later rejection replaces. *)
C24_SaveContexts ==
    [][\A n \in 1..Len(rounds') :
          rounds'[n].table = "context"
          => LET r == rounds'[n]
             IN  /\ Len(r.dispatched) = Cardinality(DOMAIN r.store.ctx)
                 /\ \A i \in 1..Len(r.dispatched) :
                       /\ "consents" \notin DOMAIN r.dispatched[i]
                       /\ r.dispatched[i].context_id = r.store.ctx[r.store.order[i]].context_id
                       /\ r.dispatched[i].brand = r.store.ctx[r.store.order[i]].brand
                 /\ r.outcome = "success" => AllResolved(r.pend)
                 /\ (r.pend # <<>> /\ AllResolved(r.pend)) => r.outcome = "success"
                 /\ (\E i \in 1..Len(r.pend) : r.pend[i] \in Reasons) => r.outcome = "error"
                 /\ n <= Len(rounds)
                    => \A i \in 1..Len(r.pend) :
                          RejectedNow(n, i)
                          => r.message = IF RejectedBefore(n)
                                         THEN rounds[n].message
                                         ELSE r.pend[i]]_vars

\* a saveContexts round for two contexts has failed with the first of two
\* different rejections
C24_Witness ==
    \E n \in ContextRounds :
        /\ Len(rounds[n].dispatched) = 2
        /\ rounds[n].outcome = "error"
        /\ \E i, j \in 1..2 :
              /\ rounds[n].pend[i] = rounds[n].message
              /\ rounds[n].pend[j] \in Reasons \ {rounds[n].message}

-----------------------------------------------------------------------------
\* this step has written the store to the storage
Persists ==
    /\ lastStep'.op \in {"saveConsents", "saveContexts"}
    /\ storageAvailable
    /\ preferences.order # <<>>

(* C25: a consent with a valid status and a valid expiry date, as addConsents
   stores it, comes back from a persist and reload (getPreferences) with the
   same status and an expiry_date of the same day, the precision of the date
   format. *)
C25_RoundTrip ==
    [][Persists
       => LET reloaded == getPreferences(storageAvailable, storage')
          IN  /\ Pairs(reloaded) = Pairs(preferences)
              /\ \A q \in Pairs(preferences) :
                    LET before == ConsentAt(preferences, q)
                        after == ConsentAt(reloaded, q)
                    IN  (before.status \in CONSENT_STATES /\ before.expiry_date # NoDate)
                        => /\ after.status = before.status
                           /\ after.expiry_date # NoDate
                           /\ dayjsFormat(after.expiry_date)
                                 = dayjsFormat(before.expiry_date)]_vars

\* the store has been persisted with a consent addConsents had put into the
\* default context, given until 2000-01-01
C25_Witness ==
    /\ storageAvailable
    /\ Called("saveConsents")
    /\ DefaultContextId \in DOMAIN storage.ctx
    /\ "a" \in DOMAIN storage.ctx[DefaultContextId].consents
    /\ storage.ctx[DefaultContextId].consents["a"].status = GIVEN
    /\ storage.ctx[DefaultContextId].consents["a"].expiry_date = dayjsFormat(PastTs)

-----------------------------------------------------------------------------
(* C26: every saveConsents call starts its dispatches, whatever became of the
   write; with the storage available and a store that is not empty, the
   storage holds the whole current store when the dispatches are issued, and
   no callback of the call has run by then; otherwise the storage is left as
   it was. *)
C26_PersistBeforeDispatch ==
    [][Calls("saveConsents")
       => /\ StartsRound
          /\ NewRound.table = "consent"
          /\ NewRound.outcome = "pending"
          /\ IF storageAvailable /\ preferences.order # <<>>
             THEN storage' = _stringifyPreferences(preferences)
             ELSE storage' = storage]_vars

-----------------------------------------------------------------------------
\* the flag of consent q goes from set to cleared in this step
Cleared(q) ==
    /\ q \in FlaggedPairs(preferences)
    /\ q \in Pairs(preferences')
    /\ q \notin FlaggedPairs(preferences')

(* C27: the _updated flag of a consent is cleared only by the settlement of
   a saveConsents round that has dispatched this consent in its changed
   partition; a consent updated while an earlier round is in flight keeps
   its flag when that round settles. *)
C27_ClearedByOwnRound ==
    [][\A q \in Pairs(preferences) :
          Cleared(q)
          => \E n \in ConsentRounds :
                /\ SettlesNow(n)
                /\ q \in FlaggedPairs(rounds[n].store)]_vars

-----------------------------------------------------------------------------
\* the callbacks of round n have run: onSuccess, or onError
Decided(n) == n <= Len(rounds) /\ rounds[n].outcome \in {"success", "error"}

(* C28: when every dispatch settles in the end, each saveConsents call gets
   one of onSuccess and onError invoked, once: a decided round keeps its
   outcome and what its callback was given, and again and again all the
   rounds started so far are decided (so each round is, from some time on).
   A call on an empty store dispatches nothing and gets onSuccess with an
   empty view. *)
C28_ExactlyOneCallback ==
    /\ [][\A n \in ConsentRounds :
             /\ Decided(n)
                => /\ rounds'[n].outcome = rounds[n].outcome
                   /\ rounds'[n].reported = rounds[n].reported
                   /\ rounds'[n].message = rounds[n].message
             /\ (SettlesNow(n) /\ Pairs(preferences) = {} /\ rounds[n].dispatched = <<>>)
                => rounds'[n].outcome = "success" /\ rounds'[n].reported = EmptyMap]_vars
    /\ []<>(\A n \in ConsentRounds : Decided(n))

\* a call of the page on an empty store has got onSuccess with an empty view
C28_Witness ==
    \E n \in ConsentRounds :
        /\ rounds[n].cb = "host"
        /\ rounds[n].dispatched = <<>>
        /\ rounds[n].outcome = "success"
        /\ rounds[n].reported = EmptyMap

====
